---- MODULE Spec2Model ----
(***************************************************************************)
(* The IELTS evaluation microservice.                                      *)
(*                                                                         *)
(*   ielts/ielts_repository.py  ClaudeRepository.evaluate_ielts: builds a  *)
(*       prompt, issues one blocking requests.post and maps the HTTP reply *)
(*       to an EvaluationResponseFromClaude.                               *)
(*   ielts/ielts_service.py     IELTSService.EvaluateIELTS: the delegating *)
(*       handler; it owns one ClaudeRepository shared by all its calls.    *)
(*   server/python_server.py    Greeter.SayHello, a second IELTSService    *)
(*       whose EvaluateIELTS returns a fixed text, and serve(), which      *)
(*       registers Greeter and that second IELTSService on a gRPC server   *)
(*       backed by a ThreadPoolExecutor of 10 workers.                     *)
(*                                                                         *)
(* The state is the sequence of calls received so far, in order of         *)
(* arrival; each call frame holds the locals of its handler, the POST it   *)
(* has on the wire and the reply it received.                              *)
(***************************************************************************)
EXTENDS Naturals, Sequences, FiniteSets

VARIABLES calls

vars == <<calls>>

\* ------------------------------------------------------------------ bounds

\* Calls the environment issues in one run.
MaxCalls == 2

\* ------------------------------------------------------- program constants

\* python_server.py:35  futures.ThreadPoolExecutor(max_workers=10)
max_workers == 10

\* ielts_repository.py:38  if response.status_code == 200
HTTP_OK == 200

\* ielts_repository.py:33  "max_tokens": 1000
max_tokens == 1000

api_url == "https://api.anthropic.com/v1/messages"

api_key == "sk-ant-api03-<static secret>"

model_id == "claude-3-sonnet-20240229"

ErrorLiteral == "Error: Unable to get evaluation from Claude."

StubLiteral == "Evaluation not implemented yet."

\* The three servicer classes of the repository.
GreeterServicer == "python_server.Greeter"

StubServicer == "python_server.IELTSService"

DelegatingServicer == "ielts_service.IELTSService"

\* What serve() registers on the server it starts.
Registered == {GreeterServicer, StubServicer}

\* --------------------------------------------------------------- messages

Fields ==
    {"passage", "question", "student_response",
     "complex_sentences", "advanced_vocabulary", "cohesive_devices"}

MkRequest(p, q, r, cs, av, cd) ==
    [passage |-> p, question |-> q, student_response |-> r,
     complex_sentences |-> cs, advanced_vocabulary |-> av,
     cohesive_devices |-> cd]

\* The inbound EvaluateIELTS requests the environment sends: the scenario
\* request, a request whose six fields are pairwise distinct and share no
\* value with the scenario request, and a request of empty fields.
Requests ==
    { MkRequest("P", "Q", "R", "yes", "no", "yes"),
      MkRequest("p2", "q2", "r2", "cs2", "av2", "cd2"),
      MkRequest("", "", "", "", "", "") }

\* The inbound SayHello requests.
HelloRequests == { [name |-> "Ann"], [name |-> ""] }

\* JSON values the external API may put in the content field: a string, null,
\* or any other JSON type (the array of content blocks, a number, an object).
JString(t) == [type |-> "string", text |-> t]

JNull == [type |-> "null", text |-> ""]

JArray == [type |-> "array", text |-> ""]

ContentValues == { JString("Good job."), JString("X"), JNull, JArray }

\* HTTP reply bodies: not JSON at all, a JSON array, a JSON object without a
\* content field, a JSON object with a content field.
Bodies ==
    { [form |-> f, content |-> JNull] :
        f \in {"not_json", "json_array", "object_no_content"} }
    \cup { [form |-> "object", content |-> v] : v \in ContentValues }

Statuses == {200, 204, 500}

NoReply == [kind |-> "none", status |-> 0, body |-> [form |-> "none", content |-> JNull]]

TransportError ==
    [kind |-> "transport_error", status |-> 0,
     body |-> [form |-> "none", content |-> JNull]]

\* Everything requests.post can come back with.
Replies ==
    {TransportError}
    \cup { [kind |-> "http", status |-> s, body |-> b] : s \in Statuses, b \in Bodies }

NoMessage == [none |-> TRUE]

\* ------------------------------------------------- ielts_repository.py

\* ielts_repository.py:10-13
Headers == [Content_Type |-> "application/json", X_API_Key |-> api_key]

\* ielts_repository.py:15-28  the f-string prompt embedding the six fields.
Prompt(request) ==
    "\n        Evaluate the following IELTS reading response:\n\n"
    \o "        Passage: " \o request.passage \o "\n"
    \o "        Question: " \o request.question \o "\n"
    \o "        Student Response: " \o request.student_response \o "\n\n"
    \o "        Please consider the following aspects in your evaluation:\n"
    \o "        1. Complex Sentences: " \o request.complex_sentences \o "\n"
    \o "        2. Advanced Vocabulary: " \o request.advanced_vocabulary \o "\n"
    \o "        3. Cohesive Devices: " \o request.cohesive_devices \o "\n\n"
    \o "        Provide a detailed evaluation of the student's response, "
    \o "including strengths and areas for improvement.\n        "

\* ielts_repository.py:30-34
PostData(request) ==
    [model |-> model_id,
     messages |-> << [role |-> "user", content |-> Prompt(request)] >>,
     max_tokens |-> max_tokens]

\* ielts_repository.py:36  the POST put on the wire.
HttpPost(request) ==
    [url |-> api_url, json |-> PostData(request), headers |-> Headers]

\* ielts_repository.py:40  EvaluationResponseFromClaude(evaluation=v): the
\* evaluation field is a text field.  A string is stored as it is, None is
\* the same as leaving the field unset (the empty text), and a value of any
\* other type is refused with a TypeError.
StringField(v) ==
    CASE v.type = "string" -> [raised |-> FALSE, evaluation |-> v.text]
      [] v.type = "null"   -> [raised |-> FALSE, evaluation |-> ""]
      [] OTHER             -> [raised |-> TRUE, evaluation |-> ""]

\* ielts_repository.py:39  response.json()["content"]: raises when the body
\* is not JSON (JSONDecodeError), is JSON but no object (TypeError) or is an
\* object without the key (KeyError).
JsonContent(body) ==
    IF body.form = "object"
    THEN [raised |-> FALSE, value |-> body.content]
    ELSE [raised |-> TRUE, value |-> JNull]

(* Mutants of evaluate_ielts. *)

\* The status test inverted.
evaluate_ielts_inverted(reply) ==
    IF reply.kind = "transport_error" THEN [raised |-> TRUE, evaluation |-> ""]
    ELSE IF reply.status # HTTP_OK
    THEN LET c == JsonContent(reply.body) IN
         IF c.raised THEN [raised |-> TRUE, evaluation |-> ""]
         ELSE StringField(c.value)
    ELSE [raised |-> FALSE, evaluation |-> ErrorLiteral]

\* Every 2xx status taken for success.
evaluate_ielts_any2xx(reply) ==
    IF reply.kind = "transport_error" THEN [raised |-> TRUE, evaluation |-> ""]
    ELSE IF reply.status \div 100 = 2
    THEN LET c == JsonContent(reply.body) IN
         IF c.raised THEN [raised |-> TRUE, evaluation |-> ""]
         ELSE StringField(c.value)
    ELSE [raised |-> FALSE, evaluation |-> ErrorLiteral]

\* requests.post wrapped in try/except that falls back to the error literal.
evaluate_ielts_caught(reply) ==
    IF reply.kind = "transport_error"
    THEN [raised |-> FALSE, evaluation |-> ErrorLiteral]
    ELSE IF reply.status = HTTP_OK
    THEN LET c == JsonContent(reply.body) IN
         IF c.raised THEN [raised |-> TRUE, evaluation |-> ""]
         ELSE StringField(c.value)
    ELSE [raised |-> FALSE, evaluation |-> ErrorLiteral]

\* A body without content answered with the error literal.
evaluate_ielts_fallback(reply) ==
    IF reply.kind = "transport_error" THEN [raised |-> TRUE, evaluation |-> ""]
    ELSE IF reply.status = HTTP_OK
    THEN LET c == JsonContent(reply.body) IN
         IF c.raised THEN [raised |-> FALSE, evaluation |-> ErrorLiteral]
         ELSE StringField(c.value)
    ELSE [raised |-> FALSE, evaluation |-> ErrorLiteral]

\* The non-200 branch relaying the body's content when it has one.
evaluate_ielts_detail(reply) ==
    IF reply.kind = "transport_error" THEN [raised |-> TRUE, evaluation |-> ""]
    ELSE LET c == JsonContent(reply.body) IN
         IF reply.status = HTTP_OK
         THEN IF c.raised THEN [raised |-> TRUE, evaluation |-> ""]
              ELSE StringField(c.value)
         ELSE IF c.raised \/ c.value.type # "string"
              THEN [raised |-> FALSE, evaluation |-> ErrorLiteral]
              ELSE [raised |-> FALSE, evaluation |-> c.value.text]

\* ielts_repository.py:36-42  what evaluate_ielts does with the outcome of
\* requests.post: it raises (nothing catches a transport failure, a body
\* without content or a content that is no text) or returns an
\* EvaluationResponseFromClaude with this evaluation.
evaluate_ielts(reply) ==
    IF reply.kind = "transport_error" THEN [raised |-> TRUE, evaluation |-> ""]
    ELSE IF reply.status = HTTP_OK
    THEN LET c == JsonContent(reply.body) IN
         IF c.raised THEN [raised |-> TRUE, evaluation |-> ""]
         ELSE StringField(c.value)
    ELSE [raised |-> FALSE, evaluation |-> ErrorLiteral]

\* --------------------------------------------------- ielts_service.py

\* ielts_service.py:11-18
EvaluationRequestToClaude(request) ==
    [student_response |-> request.student_response,
     passage |-> request.passage,
     question |-> request.question,
     complex_sentences |-> request.complex_sentences,
     advanced_vocabulary |-> request.advanced_vocabulary,
     cohesive_devices |-> request.cohesive_devices]

\* Mutant: passage and question exchanged.
EvaluationResponseFromToDataBase_swapped(request, evaluation) ==
    [student_response |-> request.student_response,
     passage |-> request.question,
     question |-> request.passage,
     complex_sentences |-> request.complex_sentences,
     advanced_vocabulary |-> request.advanced_vocabulary,
     cohesive_devices |-> request.cohesive_devices,
     evaluation_from_claude |-> evaluation]

\* ielts_service.py:24-32
EvaluationResponseFromToDataBase(request, evaluation) ==
    [student_response |-> request.student_response,
     passage |-> request.passage,
     question |-> request.question,
     complex_sentences |-> request.complex_sentences,
     advanced_vocabulary |-> request.advanced_vocabulary,
     cohesive_devices |-> request.cohesive_devices,
     evaluation_from_claude |-> evaluation]

\* --------------------------------------------------- python_server.py

\* python_server.py:18
HelloReply(request) == [message |-> "Hello, " \o request.name \o "!"]

\* python_server.py:24-32
StubResponse(request) ==
    [student_response |-> request.student_response,
     passage |-> request.passage,
     question |-> request.question,
     complex_sentences |-> request.complex_sentences,
     advanced_vocabulary |-> request.advanced_vocabulary,
     cohesive_devices |-> request.cohesive_devices,
     evaluation_from_claude |-> StubLiteral]

\* ------------------------------------------------------------ call frames

Frame(servicer, request, pc) ==
    [servicer |-> servicer, request |-> request, pc |-> pc,
     claude_request |-> NoMessage, posts |-> 0, post |-> NoMessage,
     reply |-> NoReply, response |-> NoMessage]

CallIds == 1..Len(calls)

\* Worker threads of the pool that are executing a handler.
Busy == Cardinality({c \in CallIds : calls[c].pc = "running"})

\* Mutant: the request kept on the shared servicer instance, so that a handler
\* reads the request of the call that reached its servicer last.
HandlerRequest_shared(c) ==
    LET same == {d \in CallIds : calls[d].servicer = calls[c].servicer}
        last == CHOOSE d \in same : \A e \in same : e <= d
    IN  calls[last].request

\* The request parameter of the handler executing call c.
HandlerRequest(c) == calls[c].request

Init == calls = << >>

\* ------------------------------------------------------ the served calls

\* python_server.py:34-41  the server started by serve() receives a call for
\* one of the servicers registered on it and submits it to the thread pool.
Receive ==
    /\ Len(calls) < MaxCalls
    /\ \E servicer \in Registered :
         \E request \in (IF servicer = GreeterServicer THEN HelloRequests ELSE Requests) :
            calls' = Append(calls, Frame(servicer, request, "queued"))

\* python_server.py:35  a free worker takes the oldest submitted call.
Dispatch(c) ==
    /\ calls[c].pc = "queued"
    /\ \A d \in 1..(c - 1) : calls[d].pc # "queued"
    /\ Busy < max_workers
    /\ calls' = [calls EXCEPT ![c].pc = "running"]

\* python_server.py:17-18
SayHello(c) ==
    /\ calls[c].servicer = GreeterServicer
    /\ calls[c].pc = "running"
    /\ calls' = [calls EXCEPT ![c].pc = "done",
                              ![c].response = HelloReply(HandlerRequest(c))]

\* python_server.py:21-32  the EvaluateIELTS that serve() registers.
StubEvaluateIELTS(c) ==
    /\ calls[c].servicer = StubServicer
    /\ calls[c].pc = "running"
    /\ calls' = [calls EXCEPT ![c].pc = "done",
                              ![c].response = StubResponse(HandlerRequest(c))]

\* ---------------------------------------------- the delegating handler

\* ielts_service.py:9  EvaluateIELTS of ielts_service.IELTSService is called.
\* All calls go to one servicer instance and so to one ClaudeRepository.
Invoke ==
    /\ Len(calls) < MaxCalls
    /\ \E request \in Requests :
         calls' = Append(calls, Frame(DelegatingServicer, request, "entered"))

\* ielts_service.py:11-18
Build(c) ==
    /\ calls[c].servicer = DelegatingServicer
    /\ calls[c].pc = "entered"
    /\ calls' = [calls EXCEPT
                   ![c].pc = "built",
                   ![c].claude_request = EvaluationRequestToClaude(HandlerRequest(c))]

\* ielts_service.py:21, ielts_repository.py:10-36  evaluate_ielts builds the
\* POST and blocks in requests.post.
Post(c) ==
    /\ calls[c].servicer = DelegatingServicer
    /\ calls[c].pc = "built"
    /\ calls' = [calls EXCEPT
                   ![c].pc = "awaiting",
                   ![c].posts = @ + 1,
                   ![c].post = HttpPost(calls[c].claude_request)]

\* Mutant: a reply that is not a 200 sends the handler back to post again.
Reply_retry(c) ==
    /\ calls[c].servicer = DelegatingServicer
    /\ calls[c].pc = "awaiting"
    /\ \E reply \in Replies :
         LET out == evaluate_ielts(reply) IN
         calls' = [calls EXCEPT
            ![c].reply = reply,
            ![c].pc = IF reply.kind = "http" /\ reply.status # HTTP_OK THEN "built"
                      ELSE IF out.raised THEN "fault" ELSE "done",
            ![c].response =
                IF out.raised \/ (reply.kind = "http" /\ reply.status # HTTP_OK)
                THEN NoMessage
                ELSE EvaluationResponseFromToDataBase(HandlerRequest(c), out.evaluation)]

\* ielts_repository.py:36-42, ielts_service.py:21-34  requests.post comes back;
\* evaluate_ielts raises or returns, and the handler assembles and returns its
\* response.  An exception leaves the handler without a response.
Reply(c) ==
    /\ calls[c].servicer = DelegatingServicer
    /\ calls[c].pc = "awaiting"
    /\ \E reply \in Replies :
         LET out == evaluate_ielts(reply) IN
         calls' = [calls EXCEPT
            ![c].reply = reply,
            ![c].pc = IF out.raised THEN "fault" ELSE "done",
            ![c].response =
                IF out.raised THEN NoMessage
                ELSE EvaluationResponseFromToDataBase(HandlerRequest(c), out.evaluation)]

Next ==
    \/ Receive
    \/ Invoke
    \/ \E c \in CallIds : Dispatch(c)
    \/ \E c \in CallIds : SayHello(c)
    \/ \E c \in CallIds : StubEvaluateIELTS(c)
    \/ \E c \in CallIds : Build(c)
    \/ \E c \in CallIds : Post(c)
    \/ \E c \in CallIds : Reply(c)

Spec == Init /\ [][Next]_vars

\* ---------------------------------------------------------------- claims

\* The calls of either EvaluateIELTS handler.
IsEvaluate(c) == calls[c].servicer \in {StubServicer, DelegatingServicer}

IsDelegating(c) == calls[c].servicer = DelegatingServicer

Returned(c) == calls[c].response # NoMessage

Echoes(c) == \A f \in Fields : calls[c].response[f] = calls[c].request[f]

\* C1: whenever an EvaluateIELTS handler (the delegating one or the one that
\* serve() registers) returns a response, the six fields passage, question,
\* student_response, complex_sentences, advanced_vocabulary and
\* cohesive_devices of the response equal those of the request.
C1_EchoedFields ==
    \A c \in CallIds : (IsEvaluate(c) /\ Returned(c)) => Echoes(c)

\* C1 witness: a delegating call whose six fields are pairwise distinct has
\* returned after a 200 reply, and a call of the registered handler has
\* returned too.
C1_Witness ==
    /\ \E c \in CallIds :
         /\ IsDelegating(c) /\ Returned(c)
         /\ calls[c].reply.status = HTTP_OK
         /\ calls[c].request = MkRequest("p2", "q2", "r2", "cs2", "av2", "cd2")
    /\ \E c \in CallIds : calls[c].servicer = StubServicer /\ Returned(c)

\* The delegating calls whose POST was answered 200 with a JSON object that
\* has a content field.
Got200Content(c) ==
    /\ IsDelegating(c)
    /\ calls[c].reply.kind = "http"
    /\ calls[c].reply.status = HTTP_OK
    /\ calls[c].reply.body.form = "object"

C3_Non200ErrorLiteral ==
    \A c \in CallIds :
        (IsDelegating(c) /\ calls[c].reply.kind = "http"
                         /\ calls[c].reply.status # HTTP_OK) =>
            /\ calls[c].pc = "done"
            /\ Returned(c)
            /\ calls[c].response.evaluation_from_claude
                   = "Error: Unable to get evaluation from Claude."
            /\ Echoes(c)

\* C3 witness: the scenario request answered 500 has completed.
C3_Witness ==
    \E c \in CallIds :
        /\ IsDelegating(c)
        /\ calls[c].reply.kind = "http" /\ calls[c].reply.status = 500
        /\ calls[c].request = MkRequest("P", "Q", "R", "yes", "no", "yes")
        /\ calls[c].pc = "done"

\* C4: a call whose POST failed at transport level has ended in a fault and
\* has no response, in this state and so in every later one.
C4_TransportFailureFaults ==
    \A c \in CallIds :
        (IsDelegating(c) /\ calls[c].reply.kind = "transport_error") =>
            /\ calls[c].pc = "fault"
            /\ ~ Returned(c)

\* C4 witness: a call has received a transport failure.
C4_Witness ==
    \E c \in CallIds :
        IsDelegating(c) /\ calls[c].reply = TransportError /\ calls[c].pc = "fault"

\* The evaluation text that the reply to call c's own POST stands for.
OwnOutcome(c) ==
    IF calls[c].servicer = StubServicer THEN "Evaluation not implemented yet."
    ELSE IF calls[c].reply.status # HTTP_OK
    THEN "Error: Unable to get evaluation from Claude."
    ELSE calls[c].reply.body.content.text

\* C5: with calls in flight at the same time on one servicer and one
\* ClaudeRepository, a response carries the six fields of its own request
\* and the outcome of the reply to its own POST; a value that only another
\* call's request holds appears in none of its fields.
C5_NoCrossContamination ==
    \A c \in CallIds :
        (IsEvaluate(c) /\ Returned(c)) =>
            /\ Echoes(c)
            /\ calls[c].response.evaluation_from_claude = OwnOutcome(c)
            /\ \A d \in CallIds \ {c} :
                 IsEvaluate(d) =>
                   \A g \in Fields :
                     (\A h \in Fields : calls[c].request[h] # calls[d].request[g])
                       => \A f \in Fields :
                            calls[c].response[f] # calls[d].request[g]

\* C5 witness: the second call has returned its response, with a request and
\* a reply that differ from the first call's in every field, while the first
\* call, which arrived before it, is still waiting for its reply.
C5_Witness ==
    /\ Len(calls) = 2
    /\ IsDelegating(1) /\ IsDelegating(2)
    /\ calls[1].request = MkRequest("P", "Q", "R", "yes", "no", "yes")
    /\ calls[1].pc = "awaiting"
    /\ calls[2].request = MkRequest("p2", "q2", "r2", "cs2", "av2", "cd2")
    /\ calls[2].pc = "done"
    /\ calls[2].reply.status = HTTP_OK
    /\ calls[2].reply.body.content = JString("X")

\* C6 as stated: every EvaluateIELTS call that the server started by serve()
\* has completed went through the Evaluation Client to the external API, and
\* its evaluation text is the client's outcome (the content on 200, the error
\* literal otherwise).
C6_AsStated ==
    \A c \in CallIds :
        (calls[c].servicer \in Registered /\ calls[c].servicer # GreeterServicer
            /\ calls[c].pc = "done") =>
            /\ calls[c].posts = 1
            /\ calls[c].reply.kind = "http"
            /\ calls[c].response.evaluation_from_claude =
                 (IF calls[c].reply.status = HTTP_OK
                  THEN calls[c].reply.body.content.text
                  ELSE "Error: Unable to get evaluation from Claude.")

\* C7: after a 200 reply whose body has no content field (no JSON, JSON but
\* no object, an object without the key) the call has ended in a fault and
\* has no response.
C7_MissingContentFaults ==
    \A c \in CallIds :
        (IsDelegating(c) /\ calls[c].reply.kind = "http"
            /\ calls[c].reply.status = HTTP_OK
            /\ calls[c].reply.body.form # "object") =>
            /\ calls[c].pc = "fault"
            /\ ~ Returned(c)

\* C7 witness: a call was answered 200 with a JSON object without content.
C7_Witness ==
    \E c \in CallIds :
        /\ IsDelegating(c)
        /\ calls[c].reply.kind = "http" /\ calls[c].reply.status = HTTP_OK
        /\ calls[c].reply.body.form = "object_no_content"
        /\ calls[c].pc = "fault"

\* C8: a call of the delegating handler has issued no POST before its
\* internal request is built, exactly one from then on whatever the reply,
\* and it has a response or a fault only once the reply to that POST is in.
C8_ExactlyOnePost ==
    \A c \in CallIds :
        IsDelegating(c) =>
            /\ calls[c].pc \in {"entered", "built"} =>
                 /\ calls[c].posts = 0
                 /\ calls[c].post = NoMessage
                 /\ calls[c].reply = NoReply
            /\ calls[c].pc = "entered" => calls[c].claude_request = NoMessage
            /\ calls[c].pc \in {"awaiting", "done", "fault"} =>
                 /\ calls[c].posts = 1
                 /\ calls[c].claude_request # NoMessage
                 /\ calls[c].post # NoMessage
            /\ calls[c].pc = "awaiting" => calls[c].reply = NoReply
            /\ calls[c].pc \in {"done", "fault"} => calls[c].reply # NoReply
            /\ Returned(c) => calls[c].pc = "done"

\* C8 witness: one call has completed after a 500 reply and another has
\* faulted on a transport failure, each with its single POST.
C8_Witness ==
    /\ \E c \in CallIds :
         /\ IsDelegating(c) /\ calls[c].pc = "done"
         /\ calls[c].reply.status = 500 /\ calls[c].posts = 1
    /\ \E c \in CallIds :
         /\ IsDelegating(c) /\ calls[c].pc = "fault"
         /\ calls[c].reply = TransportError /\ calls[c].posts = 1

\* C9 as stated: at most 10 calls execute a handler at once, and an
\* EvaluateIELTS call dispatched by the server that serve() starts gives up
\* its worker only once its external-API call has returned or faulted.
C9_AsStated ==
    /\ Busy <= 10
    /\ \A c \in CallIds :
         (calls[c].servicer = StubServicer /\ calls[c].pc \notin {"queued", "running"})
            => calls[c].reply # NoReply

\* C10: two calls with the same request whose POSTs were answered with
\* statuses other than 200 have both completed, with identical responses,
\* whatever the statuses and bodies of the two replies.
C10_Non200Indistinguishable ==
    \A c, d \in CallIds :
        (/\ IsDelegating(c) /\ IsDelegating(d)
         /\ calls[c].request = calls[d].request
         /\ calls[c].reply.kind = "http" /\ calls[c].reply.status # HTTP_OK
         /\ calls[d].reply.kind = "http" /\ calls[d].reply.status # HTTP_OK) =>
            /\ calls[c].pc = "done" /\ calls[d].pc = "done"
            /\ calls[c].response = calls[d].response

\* C10 witness: the same request answered 204 with a body that is no JSON and
\* 500 with a JSON object holding a content text.
C10_Witness ==
    \E c, d \in CallIds :
        /\ IsDelegating(c) /\ IsDelegating(d)
        /\ calls[c].request = calls[d].request
        /\ calls[c].reply.kind = "http" /\ calls[c].reply.status = 204
        /\ calls[c].reply.body.form = "not_json"
        /\ calls[d].reply.kind = "http" /\ calls[d].reply.status = 500
        /\ calls[d].reply.body = [form |-> "object", content |-> JString("X")]
        /\ calls[c].pc = "done" /\ calls[d].pc = "done"

====
